---- MODULE Spec2Model ----
(***************************************************************************)
(* Model of clawdbot/wallet_commands.py: a command-line shim that parses   *)
(* argv, converts a decimal amount to a chain's smallest unit with         *)
(* double-precision arithmetic, builds one `dfx canister call` command     *)
(* line, runs it, and prints the result.                                   *)
(*                                                                         *)
(* Text is modelled as a sequence of string fragments: literals of the     *)
(* source are one fragment each, data that comes from the command line or  *)
(* from the external tool is one fragment per character.                   *)
(***************************************************************************)
EXTENDS Integers, Sequences, FiniteSets, TLC

\* ------------------------------------------------------------------------
\* Arbitrary-precision naturals (Python's int is unbounded, and the 53-bit
\* significands of its floats do not fit a machine word of the checker):
\* little-endian sequences of limbs in 0..Base-1 without high-order zeros.
\* ------------------------------------------------------------------------

Base == 10000
LimbDigits == 4

RECURSIVE BNorm(_)
BNorm(a) ==
  IF a = <<>> THEN <<>>
  ELSE IF a[Len(a)] = 0 THEN BNorm(SubSeq(a, 1, Len(a) - 1))
  ELSE a

RECURSIVE BAddC(_, _, _)
BAddC(a, b, c) ==
  IF a = <<>> /\ b = <<>> THEN (IF c = 0 THEN <<>> ELSE <<c>>)
  ELSE LET x == IF a = <<>> THEN 0 ELSE Head(a)
           y == IF b = <<>> THEN 0 ELSE Head(b)
           s == x + y + c
       IN  <<s % Base>> \o BAddC(IF a = <<>> THEN <<>> ELSE Tail(a),
                                 IF b = <<>> THEN <<>> ELSE Tail(b),
                                 s \div Base)

BAdd(a, b) == BAddC(a, b, 0)

RECURSIVE BSubC(_, _, _)
BSubC(a, b, c) ==
  IF a = <<>> THEN <<>>
  ELSE LET y == IF b = <<>> THEN 0 ELSE Head(b)
           s == Head(a) - y - c
       IN  <<(s + Base) % Base>> \o BSubC(Tail(a),
                                          IF b = <<>> THEN <<>> ELSE Tail(b),
                                          IF s < 0 THEN 1 ELSE 0)

\* a - b for a >= b
BSub(a, b) == BNorm(BSubC(a, b, 0))

\* -1, 0, 1 as a < b, a = b, a > b
BCmp(a, b) ==
  IF Len(a) < Len(b) THEN -1
  ELSE IF Len(a) > Len(b) THEN 1
  ELSE LET diff == {i \in 1..Len(a) : a[i] # b[i]}
           top  == CHOOSE i \in diff : \A j \in diff : j <= i
       IN  IF diff = {} THEN 0 ELSE IF a[top] < b[top] THEN -1 ELSE 1

BGe(a, b) == BCmp(a, b) >= 0
BLt(a, b) == BCmp(a, b) < 0

RECURSIVE BMulDigitC(_, _, _)
BMulDigitC(a, d, c) ==
  IF a = <<>> THEN (IF c = 0 THEN <<>> ELSE <<c>>)
  ELSE LET s == Head(a) * d + c
       IN  <<s % Base>> \o BMulDigitC(Tail(a), d, s \div Base)

\* a * d for one limb d
BMulDigit(a, d) == BNorm(BMulDigitC(a, d, 0))

RECURSIVE BMul(_, _)
BMul(a, b) ==
  IF a = <<>> \/ b = <<>> THEN <<>>
  ELSE BAdd(BMulDigit(a, Head(b)), BNorm(<<0>> \o BMul(a, Tail(b))))

BDouble(a) == BAdd(a, a)

RECURSIVE Pow2(_)
Pow2(k) ==
  IF k = 0 THEN <<1>>
  ELSE IF k >= 10 THEN BMulDigit(Pow2(k - 10), 1024)
  ELSE BDouble(Pow2(k - 1))

Pow10(k) ==
  [i \in 1..(k \div LimbDigits) |-> 0] \o <<(<<1, 10, 100, 1000>>)[(k % LimbDigits) + 1]>>

BIsOdd(a) == a # <<>> /\ a[1] % 2 = 1

\* largest q in lo..hi with q*d <= r, by bisection
RECURSIVE QuotLimb(_, _, _, _)
QuotLimb(r, d, lo, hi) ==
  IF lo = hi THEN lo
  ELSE LET mid == (lo + hi + 1) \div 2
       IN  IF BGe(r, BMulDigit(d, mid)) THEN QuotLimb(r, d, mid, hi)
           ELSE QuotLimb(r, d, lo, mid - 1)

\* schoolbook long division over the limbs i..1 of n; r is the running
\* remainder and acc the quotient limbs found so far
RECURSIVE BDivModFrom(_, _, _, _, _)
BDivModFrom(n, d, i, r, acc) ==
  IF i = 0 THEN <<BNorm(acc), r>>
  ELSE LET r1 == BNorm(<<n[i]>> \o r)
           q  == QuotLimb(r1, d, 0, Base - 1)
           r2 == BSub(r1, BMulDigit(d, q))
       IN  BDivModFrom(n, d, i - 1, r2, <<q>> \o acc)

\* <<n div d, n mod d>> for d > 0
BDivMod(n, d) == BDivModFrom(n, d, Len(n), <<>>, <<>>)

\* ------------------------------------------------------------------------
\* IEEE-754 binary64 values, as CPython's float: a finite non-zero value is
\* neg, m, e with 2^52 <= m < 2^53 and magnitude m * 2^e; zero has m = <<>>.
\* The amounts and factors of the model stay far inside the normal range,
\* so subnormals and overflow to infinity do not arise from arithmetic.
\* ------------------------------------------------------------------------

MantBits == 53

P53 == Pow2(MantBits)
P52 == Pow2(MantBits - 1)
P63 == Pow2(MantBits + 10)
P42 == Pow2(MantBits - 11)

\* n/d rounded to the nearest integer, ties to the even one
RoundDiv(n, d) ==
  LET qr == BDivMod(n, d)
      c  == BCmp(BDouble(qr[2]), d)
  IN  IF c > 0 \/ (c = 0 /\ BIsOdd(qr[1])) THEN BAdd(qr[1], <<1>>) ELSE qr[1]

\* the significand and exponent of the double nearest to (n/d) * 2^e, n > 0:
\* scale by powers of two (ten bits at a time while that is possible) until
\* the quotient has exactly 53 bits, then round
RECURSIVE Nearest(_, _, _)
Nearest(n, d, e) ==
  IF BGe(n, BMul(P63, d)) THEN Nearest(n, BMulDigit(d, 1024), e + 10)
  ELSE IF BGe(n, BMul(P53, d)) THEN Nearest(n, BDouble(d), e + 1)
  ELSE IF BLt(n, BMul(P42, d)) THEN Nearest(BMulDigit(n, 1024), d, e - 10)
  ELSE IF BLt(n, BMul(P52, d)) THEN Nearest(BDouble(n), d, e - 1)
  ELSE LET q == RoundDiv(n, d)
       IN  IF q = P53 THEN [m |-> P52, e |-> e + 1] ELSE [m |-> q, e |-> e]

Finite(neg, n, d, e) ==
  IF n = <<>> THEN [kind |-> "finite", neg |-> neg, m |-> <<>>, e |-> 0]
  ELSE LET r == Nearest(n, d, e)
       IN  [kind |-> "finite", neg |-> neg, m |-> r.m, e |-> r.e]

\* x * y of two floats, correctly rounded
fmul(x, y) ==
  IF x.kind = "nan" \/ y.kind = "nan" THEN [kind |-> "nan"]
  ELSE IF x.kind = "inf" \/ y.kind = "inf"
       THEN (IF (x.kind = "finite" /\ x.m = <<>>) \/ (y.kind = "finite" /\ y.m = <<>>)
             THEN [kind |-> "nan"]
             ELSE [kind |-> "inf", neg |-> (x.neg # y.neg)])
  ELSE Finite(x.neg # y.neg, BMul(x.m, y.m), <<1>>, x.e + y.e)

\* the float literal 1e<k> of the source
float_literal_1e(k) == Finite(FALSE, Pow10(k), <<1>>, 0)

\* ------------------------------------------------------------------------
\* Conversions between text and numbers: float(str), int(float), str(int).
\* ------------------------------------------------------------------------

Digits == <<"0", "1", "2", "3", "4", "5", "6", "7", "8", "9">>

IsDigit(c) == \E i \in 1..10 : Digits[i] = c

DigitVal(c) == (CHOOSE i \in 1..10 : Digits[i] = c) - 1

RECURSIVE Reverse(_)
Reverse(s) == IF s = <<>> THEN <<>> ELSE Reverse(Tail(s)) \o <<Head(s)>>

UpperCase == <<"A", "B", "C", "D", "E", "F", "G", "H", "I", "J", "K", "L", "M", "N", "O", "P", "Q", "R", "S", "T", "U", "V", "W", "X", "Y", "Z">>
LowerCase == <<"a", "b", "c", "d", "e", "f", "g", "h", "i", "j", "k", "l", "m", "n", "o", "p", "q", "r", "s", "t", "u", "v", "w", "x", "y", "z">>

\* str.lower() of one character (the inputs are ASCII)
lower_char(c) ==
  IF \E i \in 1..Len(UpperCase) : UpperCase[i] = c
  THEN LowerCase[CHOOSE i \in 1..Len(UpperCase) : UpperCase[i] = c]
  ELSE c

\* a lower() that leaves the text as it is
lower_keeps_case(s) == s

\* str.lower()
lower(s) == [i \in 1..Len(s) |-> lower_char(s[i])]

\* the natural with the given little-endian decimal digits
FromDigits(ds) ==
  LET at(j) == IF j <= Len(ds) THEN ds[j] ELSE 0
  IN  BNorm([i \in 1..((Len(ds) + LimbDigits - 1) \div LimbDigits) |->
               at(4 * i - 3) + 10 * at(4 * i - 2) + 100 * at(4 * i - 1) + 1000 * at(4 * i)])

\* the decimal digits of a natural, most significant first (<<>> for zero)
ToDigits(a) ==
  LET all == [j \in 1..(LimbDigits * Len(a)) |->
                (a[((j - 1) \div LimbDigits) + 1]
                   \div (<<1, 10, 100, 1000>>)[((j - 1) % LimbDigits) + 1]) % 10]
  IN  Reverse(BNorm(all))

\* float(s) for the forms  [sign] digits [. digits] | [sign] . digits |
\* [sign] inf | [sign] infinity | [sign] nan;  any other text of the input
\* alphabet raises ValueError
float_(s) ==
  LET signed == s # <<>> /\ s[1] \in {"+", "-"}
      neg    == s # <<>> /\ s[1] = "-"
      body   == IF signed THEN Tail(s) ELSE s
      word   == lower(body)
      dots   == {i \in 1..Len(body) : body[i] = "."}
      ds     == SelectSeq(body, IsDigit)
      frac   == IF dots = {} THEN 0
                ELSE Len(body) - (CHOOSE i \in dots : TRUE)
      n      == FromDigits(Reverse([i \in 1..Len(ds) |-> DigitVal(ds[i])]))
  IN  IF word = <<"n", "a", "n">> THEN [kind |-> "nan"]
      ELSE IF word \in {<<"i", "n", "f">>, <<"i", "n", "f", "i", "n", "i", "t", "y">>}
           THEN [kind |-> "inf", neg |-> neg]
      ELSE IF /\ Cardinality(dots) <= 1
              /\ Len(ds) >= 1
              /\ Len(ds) + Cardinality(dots) = Len(body)
           THEN Finite(neg, n, Pow10(frac), 0)
      ELSE [kind |-> "ValueError"]

\* int(x): truncation toward zero; raises on nan and on infinities
int_(x) ==
  IF x.kind = "nan" THEN [kind |-> "ValueError"]
  ELSE IF x.kind = "inf" THEN [kind |-> "OverflowError"]
  ELSE LET mag == IF x.m = <<>> THEN <<>>
                  ELSE IF x.e >= 0 THEN BMul(x.m, Pow2(x.e))
                  ELSE BDivMod(x.m, Pow2(0 - x.e))[1]
       IN  [kind |-> "int", neg |-> (x.neg /\ mag # <<>>), mag |-> mag]

DigitChars(ds) == [i \in 1..Len(ds) |-> Digits[ds[i] + 1]]

\* str(n) of an int, one fragment per character
str(n) ==
  IF n.mag = <<>> THEN <<"0">>
  ELSE (IF n.neg THEN <<"-">> ELSE <<>>) \o DigitChars(ToDigits(n.mag))

\* int(float(amount) * 1e<k>) as the source writes it; the first exception
\* raised, if any, is the result
to_smallest_unit(amount, k) ==
  LET f == float_(amount)
  IN  IF f.kind = "ValueError" THEN f ELSE int_(fmul(f, float_literal_1e(k)))

\* ------------------------------------------------------------------------
\* Text.  A string of the program is a sequence of fragments; the words the
\* program compares its arguments with are spelled one character each.
\* ------------------------------------------------------------------------

w_sol == <<"s", "o", "l">>
w_solana == <<"s", "o", "l", "a", "n", "a">>
w_icp == <<"i", "c", "p">>
w_xrp == <<"x", "r", "p">>
w_sui == <<"s", "u", "i">>
w_eth == <<"e", "t", "h">>
w_ethereum == <<"e", "t", "h", "e", "r", "e", "u", "m">>
w_btc == <<"b", "t", "c">>
w_bitcoin == <<"b", "i", "t", "c", "o", "i", "n">>
w_arb == <<"a", "r", "b">>
w_arbitrum == <<"a", "r", "b", "i", "t", "r", "u", "m">>
w_ton == <<"t", "o", "n">>
w_addresses == <<"a", "d", "d", "r", "e", "s", "s", "e", "s">>
w_balance == <<"b", "a", "l", "a", "n", "c", "e">>
w_send == <<"s", "e", "n", "d">>
w_account == <<"a", "c", "c", "o", "u", "n", "t">>

\* sep.join(items)
RECURSIVE join(_, _)
join(sep, items) ==
  IF items = <<>> THEN <<>>
  ELSE IF Len(items) = 1 THEN items[1]
  ELSE items[1] \o sep \o join(sep, Tail(items))

IsSpace(c) == c \in {" ", "\n", "\t", "\r"}

\* str.strip(): drop leading and trailing whitespace
strip(s) ==
  LET keep == {i \in 1..Len(s) : ~IsSpace(s[i])}
      lo   == CHOOSE i \in keep : \A j \in keep : i <= j
      hi   == CHOOSE i \in keep : \A j \in keep : j <= i
  IN  IF keep = {} THEN <<>> ELSE SubSeq(s, lo, hi)

\* list.insert(i, x) for 0 <= i <= len(list)
insert(l, i, x) == SubSeq(l, 1, i) \o <<x>> \o SubSeq(l, i + 1, Len(l))

\* ------------------------------------------------------------------------
\* Inputs: command lines and results of the external tool.
\* ------------------------------------------------------------------------

\* longest stdout / stderr text of the external tool
MaxOut == 2

OutChars == {"\n", "e"}

RECURSIVE TextsUpTo(_)
TextsUpTo(n) ==
  IF n = 0 THEN {<<>>}
  ELSE LET shorter == TextsUpTo(n - 1)
       IN  shorter \cup {Append(t, c) : t \in {u \in shorter : Len(u) = n - 1}, c \in OutChars}

ToolTexts == TextsUpTo(MaxOut)

ReturnCodes == {0, 1}

\* exceptions subprocess.run raises instead of returning
RunExceptions == {"TimeoutExpired", "FileNotFoundError"}

CommandInputs ==
  {w_addresses, w_balance, w_send, w_account,
   <<"A", "D", "D", "R", "E", "S", "S", "E", "S">>, <<"B", "a", "l", "a", "n", "c", "e">>, <<"S", "E", "N", "D">>, <<"A", "c", "c", "o", "u", "n", "t">>, <<"h", "e", "l", "p">>, <<>>}

ChainInputs ==
  {w_sol, w_solana, w_icp, w_xrp, w_sui, w_eth, w_ethereum, w_btc, w_bitcoin,
   w_arb, w_arbitrum, w_ton,
   <<"S", "O", "L">>, <<"I", "c", "p">>, <<"E", "T", "H">>, <<"B", "i", "t", "c", "o", "i", "n">>, <<"A", "R", "B">>, <<"d", "o", "g", "e">>, <<"s", "o", "l", "s">>, <<>>}

AmountInputs ==
  {<<"0", ".", "0", "1">>, <<"1", ".", "5">>, <<"0", ".", "2", "9">>, <<"8", ".", "2">>, <<"1", ".", "1">>, <<"0">>, <<"-", "2", ".", "3">>, <<".", "5">>,
   <<"a", "b", "c">>, <<"1", ".", "2", ".", "3">>, <<"n", "a", "n">>, <<"i", "n", "f">>, <<>>}

AddressInputs == {<<"a", "a", "a", "a", "a", "-", "a", "a">>, <<"5", "x", "K", "2">>}

script == <<"wallet_commands.py">>

ArgvInputs ==
  {<<script>>}
  \cup {<<script, c>> : c \in CommandInputs}
  \cup {<<script, c, ch>> : c \in CommandInputs, ch \in ChainInputs}
  \cup {<<script, c, ch, am>> : c \in {w_send, w_balance}, ch \in {w_sol, <<"d", "o", "g", "e">>}, am \in AmountInputs}
  \cup {<<script, c, ch, am, ad>> : c \in {w_send, <<"S", "E", "N", "D">>, w_balance},
                                    ch \in ChainInputs, am \in AmountInputs, ad \in AddressInputs}

\* ------------------------------------------------------------------------
\* The program.
\* ------------------------------------------------------------------------

VARIABLES
  argv,         \* sys.argv
  pc,           \* "start", "running" (inside subprocess.run), "exited"
  out,          \* the texts printed so far, one per print call
  invocations,  \* the command lines handed to subprocess.run so far
  result,       \* what subprocess.run gave back, once it has
  frame,        \* the function waiting for dfx_call, and its locals
  units,        \* send_tokens' converted amount (lamports, e8s, ...)
  exc,          \* the uncaught exception that ended the run, or "none"
  exit_status   \* the process exit status, -1 while running

vars == <<argv, pc, out, invocations, result, frame, units, exc, exit_status>>

CANISTER_ID == <<"urs2a-ziaaa-aaaad-aembq-cai">>
NETWORK == <<"ic">>

\* the defaults of dfx_call's parameters
default_args == <<"()">>
default_is_query == FALSE

\* the command line dfx_call builds
dfx_cmd(method, args, is_query) ==
  LET cmd == << <<"dfx">>, <<"canister">>, <<"call">>,
                <<"--network">>, NETWORK,
                CANISTER_ID,
                method, args >>
  IN  IF is_query THEN insert(cmd, 3, <<"--query">>) ELSE cmd

\* a dfx_call that does not look at the return code
dfx_output_ignores_returncode(res) == strip(res.stdout)

\* what dfx_call returns for a completed run of the tool
dfx_output(res) ==
  IF res.returncode # 0 THEN <<"ERROR: ">> \o strip(res.stderr)
  ELSE strip(res.stdout)

\* dfx_call up to subprocess.run: build the command line and start the tool
dfx_call(fn, symbol, method, args, is_query) ==
  /\ invocations' = Append(invocations, dfx_cmd(method, args, is_query))
  /\ frame' = [fn |-> fn, symbol |-> symbol]
  /\ pc' = "running"
  /\ UNCHANGED <<argv, result, exc, exit_status>>

\* the script runs off its end, or a function returns to it and it does
finish ==
  /\ pc' = "exited"
  /\ exit_status' = 0
  /\ UNCHANGED <<argv, invocations, frame, exc>>

\* sys.exit(code)
sys_exit(code) ==
  /\ pc' = "exited"
  /\ exit_status' = code
  /\ UNCHANGED <<argv, invocations, result, frame, units, exc>>

\* an exception nothing catches: traceback on stderr, exit status 1
uncaught(e) ==
  /\ pc' = "exited"
  /\ exc' = e
  /\ exit_status' = 1
  /\ UNCHANGED <<argv, invocations, frame>>

usage_text == <<"\nMeneseSDK Wallet Commands\n...\n">>

print_usage == Append(out, usage_text)

get_addresses ==
  /\ out' = Append(out, <<"Fetching addresses on all chains...\n">>)
  /\ dfx_call("get_addresses", <<>>, <<"getAllAddresses">>, default_args, default_is_query)
  /\ UNCHANGED units

method_map ==
  << [key |-> w_sol,      method |-> <<"getMySolanaBalance">>, divisor |-> 9,  symbol |-> <<"SOL">>],
     [key |-> w_solana,   method |-> <<"getMySolanaBalance">>, divisor |-> 9,  symbol |-> <<"SOL">>],
     [key |-> w_icp,      method |-> <<"getICPBalance">>,      divisor |-> 8,  symbol |-> <<"ICP">>],
     [key |-> w_xrp,      method |-> <<"getMyXrpBalance">>,    divisor |-> 6,  symbol |-> <<"XRP">>],
     [key |-> w_sui,      method |-> <<"getMySuiBalance">>,    divisor |-> 9,  symbol |-> <<"SUI">>],
     [key |-> w_eth,      method |-> <<"getMyEvmBalance">>,    divisor |-> 18, symbol |-> <<"ETH">>],
     [key |-> w_ethereum, method |-> <<"getMyEvmBalance">>,    divisor |-> 18, symbol |-> <<"ETH">> ] >>

\* method_map.keys(), in insertion order
method_map_keys == [i \in 1..Len(method_map) |-> method_map[i].key]

\* a get_balance whose unsupported branch lacks the return
get_balance_no_return(chain_arg) ==
  LET chain == lower(chain_arg)
      hits  == {i \in 1..Len(method_map) : method_map[i].key = chain}
      entry == method_map[CHOOSE i \in hits : TRUE]
  IN  IF hits = {}
      THEN /\ out' = out \o << <<"Unsupported chain: ">> \o chain,
                              <<"Supported: ">> \o join(<<", ">>, method_map_keys) >>
           /\ uncaught("KeyError")
           /\ UNCHANGED <<result, units>>
      ELSE /\ IF chain \in {w_eth, w_ethereum}
              THEN dfx_call("get_balance", entry.symbol, entry.method,
                            <<"(\"ethereum\")">>, default_is_query)
              ELSE dfx_call("get_balance", entry.symbol, entry.method,
                            default_args, default_is_query)
           /\ UNCHANGED <<out, units>>

get_balance(chain_arg) ==
  LET chain == lower(chain_arg)
      hits  == {i \in 1..Len(method_map) : method_map[i].key = chain}
      entry == method_map[CHOOSE i \in hits : TRUE]
  IN  IF hits = {}
      THEN /\ out' = out \o << <<"Unsupported chain: ">> \o chain,
                              <<"Supported: ">> \o join(<<", ">>, method_map_keys) >>
           /\ finish
           /\ UNCHANGED <<result, units>>
      ELSE /\ IF chain \in {w_eth, w_ethereum}
              THEN dfx_call("get_balance", entry.symbol, entry.method,
                            <<"(\"ethereum\")">>, default_is_query)
              ELSE dfx_call("get_balance", entry.symbol, entry.method,
                            default_args, default_is_query)
           /\ UNCHANGED <<out, units>>

\* the branch of send_tokens' if/elif chain that a lower-cased chain takes
send_branch(chain) ==
  IF chain \in {w_sol, w_solana} THEN "sol"
  ELSE IF chain = w_icp THEN "icp"
  ELSE IF chain \in {w_btc, w_bitcoin} THEN "btc"
  ELSE IF chain \in {w_eth, w_ethereum} THEN "eth"
  ELSE IF chain \in {w_arb, w_arbitrum} THEN "arb"
  ELSE IF chain = w_xrp THEN "xrp"
  ELSE IF chain = w_sui THEN "sui"
  ELSE IF chain = w_ton THEN "ton"
  ELSE "else"

\* factors with the one of btc mistyped
send_factor_btc_1e9(branch) ==
  CASE branch = "sol" -> 9
    [] branch = "icp" -> 8
    [] branch = "btc" -> 9
    [] branch = "eth" -> 18
    [] branch = "arb" -> 18
    [] branch = "xrp" -> 6
    [] branch = "sui" -> 9
    [] branch = "ton" -> 9

\* k of the factor 1e<k> of a branch
send_factor(branch) ==
  CASE branch = "sol" -> 9
    [] branch = "icp" -> 8
    [] branch = "btc" -> 8
    [] branch = "eth" -> 18
    [] branch = "arb" -> 18
    [] branch = "xrp" -> 6
    [] branch = "sui" -> 9
    [] branch = "ton" -> 9

\* int(float(amount) * 1e<k>) for the amounts and factors of the model,
\* computed once
smallest_unit ==
  [amount \in AmountInputs, k \in {6, 8, 9, 18} |-> to_smallest_unit(amount, k)]

\* the "Sending ..." line of a branch
send_line(branch, amount, n, to_address) ==
  CASE branch = "sol" ->
         <<"Sending ">> \o amount \o <<" SOL (">> \o str(n) \o <<" lamports) to ">> \o to_address \o <<"...">>
    [] branch = "icp" ->
         <<"Sending ">> \o amount \o <<" ICP (">> \o str(n) \o <<" e8s) to ">> \o to_address \o <<"...">>
    [] branch = "btc" ->
         <<"Sending ">> \o amount \o <<" BTC (">> \o str(n) \o <<" satoshis) to ">> \o to_address \o <<"...">>
    [] branch = "eth" ->
         <<"Sending ">> \o amount \o <<" ETH (">> \o str(n) \o <<" wei) to ">> \o to_address \o <<"...">>
    [] branch = "arb" ->
         <<"Sending ">> \o amount \o <<" ETH on Arbitrum to ">> \o to_address \o <<"...">>
    [] branch = "xrp" ->
         <<"Sending ">> \o amount \o <<" XRP (">> \o str(n) \o <<" drops) to ">> \o to_address \o <<"...">>
    [] branch = "sui" ->
         <<"Sending ">> \o amount \o <<" SUI (">> \o str(n) \o <<" mist) to ">> \o to_address \o <<"...">>
    [] branch = "ton" ->
         <<"Sending ">> \o amount \o <<" TON (">> \o str(n) \o <<" nanotons) to ">> \o to_address \o <<"...">>

\* the canister method of a branch
send_method(branch) ==
  CASE branch = "sol" -> <<"sendSolTransaction">>
    [] branch = "icp" -> <<"sendICP">>
    [] branch = "btc" -> <<"sendBitcoin">>
    [] branch = "eth" -> <<"sendEvmNativeTokenAutonomous">>
    [] branch = "arb" -> <<"sendEvmNativeTokenAutonomous">>
    [] branch = "xrp" -> <<"sendXrpAutonomous">>
    [] branch = "sui" -> <<"sendSui">>
    [] branch = "ton" -> <<"sendTonSimple">>

\* argument tuples that are (address, amount) for every branch
send_args_all_plain(branch, to_address, n) ==
  <<"(\"">> \o to_address \o <<"\", ">> \o str(n) \o <<")">>

\* the argument tuple of a branch
send_args(branch, to_address, n) ==
  CASE branch = "sol" -> <<"(\"">> \o to_address \o <<"\", ">> \o str(n) \o <<")">>
    [] branch = "icp" -> <<"(principal \"">> \o to_address \o <<"\", ">> \o str(n) \o <<")">>
    [] branch = "btc" -> <<"(\"">> \o to_address \o <<"\", ">> \o str(n) \o <<")">>
    [] branch = "eth" ->
         <<"(\"ethereum\", \"">> \o to_address \o <<"\", \"">> \o str(n) \o <<"\", null)">>
    [] branch = "arb" ->
         <<"(\"arbitrum\", \"">> \o to_address \o <<"\", \"">> \o str(n) \o <<"\", null)">>
    [] branch = "xrp" -> <<"(\"">> \o to_address \o <<"\", \"">> \o str(n) \o <<"\", null)">>
    [] branch = "sui" -> <<"(\"">> \o to_address \o <<"\", ">> \o str(n) \o <<")">>
    [] branch = "ton" -> <<"(\"">> \o to_address \o <<"\", ">> \o str(n) \o <<")">>

\* the names the else branch of send_tokens prints
send_supported_text ==
  <<"Supported: ">> \o join(<<", ">>, <<w_sol, w_icp, w_btc, w_eth, w_arb, w_xrp, w_sui, w_ton>>)

\* a send_tokens that converts the amount before it looks at the chain
send_tokens_converts_first(chain_arg, amount, to_address) ==
  LET chain  == lower(chain_arg)
      branch == send_branch(chain)
      parsed == float_(amount)
      n      == smallest_unit[amount, send_factor(branch)]
  IN  IF parsed.kind = "ValueError"
      THEN /\ uncaught("ValueError")
           /\ UNCHANGED <<out, result, units>>
      ELSE IF branch = "else"
      THEN /\ out' = out \o << <<"Unsupported chain for send: ">> \o chain,
                              send_supported_text >>
           /\ finish
           /\ UNCHANGED <<result, units>>
      ELSE IF n.kind # "int"
      THEN /\ uncaught(n.kind)
           /\ UNCHANGED <<out, result, units>>
      ELSE /\ units' = n
           /\ out' = Append(out, send_line(branch, amount, n, to_address))
           /\ dfx_call("send_tokens", <<>>, send_method(branch),
                       send_args(branch, to_address, n), default_is_query)

send_tokens(chain_arg, amount, to_address) ==
  LET chain  == lower(chain_arg)
      branch == send_branch(chain)
      n      == smallest_unit[amount, send_factor(branch)]
  IN  IF branch = "else"
      THEN /\ out' = out \o << <<"Unsupported chain for send: ">> \o chain,
                              send_supported_text >>
           /\ finish
           /\ UNCHANGED <<result, units>>
      ELSE IF n.kind # "int"
      THEN /\ uncaught(n.kind)
           /\ UNCHANGED <<out, result, units>>
      ELSE /\ units' = n
           /\ out' = Append(out, send_line(branch, amount, n, to_address))
           /\ dfx_call("send_tokens", <<>>, send_method(branch),
                       send_args(branch, to_address, n), default_is_query)

get_account ==
  /\ dfx_call("get_account", <<>>, <<"getMyGatewayAccount">>, default_args, default_is_query)
  /\ UNCHANGED <<out, units>>

\* what the waiting function prints once dfx_call has returned output
after_dfx_call(fr, output) ==
  CASE fr.fn = "get_addresses" ->
         << <<"Your multi-chain wallet addresses:\n">>, output >>
    [] fr.fn = "get_balance" ->
         << fr.symbol \o <<" balance: ">> \o output >>
    [] fr.fn = "send_tokens" ->
         << <<"\nResult: ">> \o output >>
    [] fr.fn = "get_account" ->
         << <<"Billing account status:\n">>, output >>

\* sys.argv[1].lower()
command == lower(argv[2])

----------------------------------------------------------------------------

Init ==
  /\ argv \in ArgvInputs
  /\ pc = "start"
  /\ out = <<>>
  /\ invocations = <<>>
  /\ result = [kind |-> "none"]
  /\ frame = [fn |-> "main", symbol |-> <<>>]
  /\ units = [kind |-> "none"]
  /\ exc = "none"
  /\ exit_status = -1

main_no_args ==
  /\ pc = "start"
  /\ Len(argv) < 2
  /\ out' = print_usage
  /\ sys_exit(1)

main_addresses ==
  /\ pc = "start"
  /\ Len(argv) >= 2
  /\ command = w_addresses
  /\ get_addresses

main_balance_usage ==
  /\ pc = "start"
  /\ Len(argv) >= 2
  /\ command = w_balance
  /\ Len(argv) < 3
  /\ out' = Append(out, <<"Usage: wallet_commands.py balance <chain>">>)
  /\ sys_exit(1)

main_balance ==
  /\ pc = "start"
  /\ Len(argv) >= 2
  /\ command = w_balance
  /\ ~(Len(argv) < 3)
  /\ get_balance(argv[3])

main_send_usage ==
  /\ pc = "start"
  /\ Len(argv) >= 2
  /\ command = w_send
  /\ Len(argv) < 5
  /\ out' = Append(out, <<"Usage: wallet_commands.py send <chain> <amount> <address>">>)
  /\ sys_exit(1)

main_send ==
  /\ pc = "start"
  /\ Len(argv) >= 2
  /\ command = w_send
  /\ ~(Len(argv) < 5)
  /\ send_tokens(argv[3], argv[4], argv[5])

main_account ==
  /\ pc = "start"
  /\ Len(argv) >= 2
  /\ command = w_account
  /\ get_account

\* an unknown command that is reported without sys.exit(1)
main_unknown_no_exit ==
  /\ pc = "start"
  /\ Len(argv) >= 2
  /\ command \notin {w_addresses, w_balance, w_send, w_account}
  /\ out' = out \o << <<"Unknown command: ">> \o command, usage_text >>
  /\ finish
  /\ UNCHANGED <<result, units>>

main_unknown ==
  /\ pc = "start"
  /\ Len(argv) >= 2
  /\ command \notin {w_addresses, w_balance, w_send, w_account}
  /\ out' = out \o << <<"Unknown command: ">> \o command, usage_text >>
  /\ sys_exit(1)

\* a dfx_call that runs the tool a second time after a failure
subprocess_returns_retries ==
  /\ pc = "running"
  /\ \E rc \in ReturnCodes, so \in ToolTexts, se \in ToolTexts :
       LET res == [kind |-> "completed", returncode |-> rc, stdout |-> so, stderr |-> se]
       IN  IF rc # 0 /\ Len(invocations) < 2
           THEN /\ invocations' = Append(invocations, invocations[Len(invocations)])
                /\ UNCHANGED <<argv, pc, out, result, frame, units, exc, exit_status>>
           ELSE /\ result' = res
                /\ out' = out \o after_dfx_call(frame, dfx_output(res))
                /\ finish
                /\ UNCHANGED units

\* subprocess.run returns: dfx_call picks its return value, the waiting
\* function prints it and returns, and the script ends
subprocess_returns ==
  /\ pc = "running"
  /\ \E rc \in ReturnCodes, so \in ToolTexts, se \in ToolTexts :
       LET res == [kind |-> "completed", returncode |-> rc, stdout |-> so, stderr |-> se]
       IN  /\ result' = res
           /\ out' = out \o after_dfx_call(frame, dfx_output(res))
  /\ finish
  /\ UNCHANGED units

\* a dfx_call that catches what subprocess.run raises and reports it
subprocess_raises_caught ==
  /\ pc = "running"
  /\ \E e \in RunExceptions :
       /\ result' = [kind |-> "raised", exception |-> e]
       /\ out' = out \o after_dfx_call(frame, <<"ERROR: ", e>>)
  /\ finish
  /\ UNCHANGED units

\* subprocess.run raises (the 120 s timeout expires, or the tool cannot be
\* started): nothing in the script catches it
subprocess_raises ==
  /\ pc = "running"
  /\ \E e \in RunExceptions :
       /\ result' = [kind |-> "raised", exception |-> e]
       /\ uncaught(e)
  /\ UNCHANGED <<out, units>>

Next ==
  \/ main_no_args
  \/ main_addresses
  \/ main_balance_usage
  \/ main_balance
  \/ main_send_usage
  \/ main_send
  \/ main_account
  \/ main_unknown
  \/ subprocess_returns
  \/ subprocess_raises

Spec == Init /\ [][Next]_vars

----------------------------------------------------------------------------
\* Vocabulary of the properties, stated on the command line and on what the
\* run printed and invoked, independently of the program's own helpers.

\* s is the lower-case word w up to the case of its letters
FoldsTo(s, w) ==
  /\ Len(s) = Len(w)
  /\ \A i \in 1..Len(s) :
       \/ s[i] = w[i]
       \/ \E j \in 1..Len(UpperCase) : UpperCase[j] = s[i] /\ LowerCase[j] = w[i]

BalanceChains == {w_sol, w_solana, w_icp, w_xrp, w_sui, w_eth, w_ethereum}

SendChains ==
  {w_sol, w_solana, w_icp, w_btc, w_bitcoin, w_eth, w_ethereum,
   w_arb, w_arbitrum, w_xrp, w_sui, w_ton}

Dispatched == pc # "start"
Exited == pc = "exited"

IsCommand(w) == Len(argv) >= 2 /\ FoldsTo(argv[2], w)

NoArguments == Len(argv) < 2
UnknownCommand ==
  /\ Len(argv) >= 2
  /\ ~\E w \in {w_addresses, w_balance, w_send, w_account} : FoldsTo(argv[2], w)
BalanceWithoutChain == IsCommand(w_balance) /\ Len(argv) < 3
SendWithoutOperands == IsCommand(w_send) /\ Len(argv) < 5
UsageError == NoArguments \/ BalanceWithoutChain \/ SendWithoutOperands

BalanceRun == IsCommand(w_balance) /\ Len(argv) >= 3
SendRun == IsCommand(w_send) /\ Len(argv) >= 5
ReadOnlyRun == IsCommand(w_addresses) \/ IsCommand(w_account) \/ BalanceRun

InSet(chain_arg, chains) == \E w \in chains : FoldsTo(chain_arg, w)
Canonical(chain_arg, chains) == CHOOSE w \in chains : FoldsTo(chain_arg, w)

\* the amount is an optionally signed decimal numeral
Convertible(amount) ==
  LET body == IF amount # <<>> /\ amount[1] \in {"+", "-"} THEN Tail(amount) ELSE amount
  IN  /\ \A i \in 1..Len(body) : IsDigit(body[i]) \/ body[i] = "."
      /\ Cardinality({i \in 1..Len(body) : body[i] = "."}) <= 1
      /\ \E i \in 1..Len(body) : IsDigit(body[i])

\* the whole and the number of fraction digits of a decimal numeral
DecimalOf(amount) ==
  LET body == IF amount[1] \in {"+", "-"} THEN Tail(amount) ELSE amount
      dot  == {i \in 1..Len(body) : body[i] = "."}
      ds   == SelectSeq(body, IsDigit)
  IN  [neg   |-> amount[1] = "-",
       whole |-> FromDigits(Reverse([i \in 1..Len(ds) |-> DigitVal(ds[i])])),
       frac  |-> IF dot = {} THEN 0 ELSE Len(body) - (CHOOSE i \in dot : TRUE)]

\* the text of trunc(amount * 10^k), computed in exact decimal arithmetic
ExactUnits(amount, k) ==
  LET d      == DecimalOf(amount)
      scaled == BDivMod(BMul(d.whole, Pow10(k)), Pow10(d.frac))[1]
  IN  IF scaled = <<>> THEN <<"0">>
      ELSE (IF d.neg THEN <<"-">> ELSE <<>>) \o DigitChars(ToDigits(scaled))

\* the unit factor 10^k of a send chain
UnitExponent(w) ==
  IF w \in {w_sol, w_solana, w_sui, w_ton} THEN 9
  ELSE IF w \in {w_icp, w_btc, w_bitcoin} THEN 8
  ELSE IF w \in {w_eth, w_ethereum, w_arb, w_arbitrum} THEN 18
  ELSE 6

ExactUnitsTable ==
  [amount \in {a \in AmountInputs : Convertible(a)}, k \in {6, 8, 9, 18} |->
     ExactUnits(amount, k)]

SendMethodOf(w) ==
  IF w \in {w_sol, w_solana} THEN "sendSolTransaction"
  ELSE IF w = w_icp THEN "sendICP"
  ELSE IF w \in {w_btc, w_bitcoin} THEN "sendBitcoin"
  ELSE IF w \in {w_eth, w_ethereum, w_arb, w_arbitrum} THEN "sendEvmNativeTokenAutonomous"
  ELSE IF w = w_xrp THEN "sendXrpAutonomous"
  ELSE IF w = w_sui THEN "sendSui"
  ELSE "sendTonSimple"

\* the argument tuple of a send to addr of n smallest units on chain w
SendArgsOf(w, addr, n) ==
  IF w = w_icp THEN <<"(principal \"">> \o addr \o <<"\", ">> \o n \o <<")">>
  ELSE IF w \in {w_eth, w_ethereum}
       THEN <<"(\"ethereum\", \"">> \o addr \o <<"\", \"">> \o n \o <<"\", null)">>
  ELSE IF w \in {w_arb, w_arbitrum}
       THEN <<"(\"arbitrum\", \"">> \o addr \o <<"\", \"">> \o n \o <<"\", null)">>
  ELSE IF w = w_xrp THEN <<"(\"">> \o addr \o <<"\", \"">> \o n \o <<"\", null)">>
  ELSE <<"(\"">> \o addr \o <<"\", ">> \o n \o <<")">>

BalanceMethodOf(w) ==
  IF w \in {w_sol, w_solana} THEN "getMySolanaBalance"
  ELSE IF w = w_icp THEN "getICPBalance"
  ELSE IF w = w_xrp THEN "getMyXrpBalance"
  ELSE IF w = w_sui THEN "getMySuiBalance"
  ELSE "getMyEvmBalance"

\* an invocation `dfx canister call [--query] --network ic <id> method args`
IsCall(cmd, query, method, args) ==
  LET rest == IF query THEN SubSeq(cmd, 5, Len(cmd)) ELSE SubSeq(cmd, 4, Len(cmd))
  IN  /\ Len(cmd) = (IF query THEN 9 ELSE 8)
      /\ SubSeq(cmd, 1, 3) = << <<"dfx">>, <<"canister">>, <<"call">> >>
      /\ query => cmd[4] = <<"--query">>
      /\ rest = << <<"--network">>, <<"ic">>, <<"urs2a-ziaaa-aaaad-aembq-cai">>,
                   <<method>>, args >>

\* the comma-separated names of a "Supported: a, b, c" line
ListedNames(line) ==
  LET cuts == {1} \cup {i \in 1..Len(line) : line[i] = ", "} \cup {Len(line) + 1}
      next(a) == CHOOSE b \in cuts : b > a /\ \A c \in cuts : c > a => b <= c
  IN  {SubSeq(line, a + 1, next(a) - 1) : a \in cuts \ {Len(line) + 1}}

\* t is s without its leading and trailing whitespace
IsStripOf(t, s) ==
  /\ t # <<>> => ~IsSpace(t[1]) /\ ~IsSpace(t[Len(t)])
  /\ \E a \in 0..Len(s) :
       /\ a + Len(t) <= Len(s)
       /\ t = SubSeq(s, a + 1, a + Len(t))
       /\ \A i \in 1..Len(s) : (i <= a \/ i > a + Len(t)) => IsSpace(s[i])

\* the dfx_call output that the waiting function printed
PrintedOutput ==
  LET last == out[Len(out)]
  IN  IF frame.fn = "get_balance" THEN SubSeq(last, 3, Len(last))
      ELSE IF frame.fn = "send_tokens" THEN SubSeq(last, 2, Len(last))
      ELSE last

HasFragment(text, f) == \E i \in 1..Len(text) : text[i] = f

----------------------------------------------------------------------------

\* C1: every read-only command (addresses, account, balance on a supported
\* chain) makes its single invocation in query mode, with --query right
\* after `canister call`; balance sol calls getMySolanaBalance with "()".
C1_ReadOnlyUsesQuery ==
  (ReadOnlyRun /\ invocations # <<>>) =>
     /\ Len(invocations[1]) = 9
     /\ invocations[1][4] = <<"--query">>
     /\ (BalanceRun /\ FoldsTo(argv[3], w_sol)) =>
          IsCall(invocations[1], TRUE, "getMySolanaBalance", <<"()">>)

BalanceUnsupported == BalanceRun /\ ~InSet(argv[3], BalanceChains)
SendUnsupported == SendRun /\ ~InSet(argv[3], SendChains)

\* an unsupported-chain run that printed its message and the names listed,
\* returned normally and invoked nothing
UnsupportedReport(listed) ==
  /\ Exited /\ exc = "none" /\ exit_status = 0
  /\ invocations = <<>>
  /\ Len(out) = 2
  /\ out[1][1] = (IF BalanceUnsupported THEN "Unsupported chain: "
                  ELSE "Unsupported chain for send: ")
  /\ out[2][1] = "Supported: "
  /\ ListedNames(out[2]) = listed

\* C2 as stated: balance or send on a chain outside the operation's
\* supported chains prints the unsupported-chain message followed by the
\* list of the operation's supported chain names, returns normally and never
\* invokes the tool.
C2_UnsupportedChainListsSupported ==
  (Dispatched /\ (BalanceUnsupported \/ SendUnsupported)) =>
     UnsupportedReport(IF BalanceUnsupported THEN BalanceChains ELSE SendChains)

\* the names the send message lists: one per chain, without the aliases
SendPrimaryNames == {w_sol, w_icp, w_btc, w_eth, w_arb, w_xrp, w_sui, w_ton}

\* C2 as amended: as stated, except that the list after the send message is
\* the eight primary names sol, icp, btc, eth, arb, xrp, sui, ton; each of
\* them is supported, and the accepted aliases solana, bitcoin, ethereum and
\* arbitrum are not listed.
C2_UnsupportedChainMessage ==
  /\ SendPrimaryNames \subseteq SendChains
  /\ (Dispatched /\ (BalanceUnsupported \/ SendUnsupported)) =>
        UnsupportedReport(IF BalanceUnsupported THEN BalanceChains ELSE SendPrimaryNames)

C2_Witness ==
  /\ Exited /\ SendUnsupported /\ argv[3] = <<"d", "o", "g", "e">>
  /\ out[1] = <<"Unsupported chain for send: ", "d", "o", "g", "e">>

\* C3 as stated: the exit status is 1 exactly for usage errors and unknown
\* commands, and 0 for every other run.
C3_ExitOneOnlyForUsage ==
  Exited => /\ exit_status \in {0, 1}
            /\ exit_status = 1 <=> (UsageError \/ UnknownCommand)

\* a send on a supported chain whose amount does not convert
AmountFault == SendRun /\ InSet(argv[3], SendChains) /\ ~Convertible(argv[4])

\* C3 as amended: the exit status is 1 exactly for usage errors, unknown
\* commands and runs ended by an uncaught exception (an amount that does not
\* convert on a supported send chain, or subprocess.run raising); it is 0
\* otherwise, whatever exit code the external tool returned.
C3_ExitStatus ==
  Exited => /\ exit_status \in {0, 1}
            /\ exit_status = 1 <=>
                 (UsageError \/ UnknownCommand \/ AmountFault \/ result.kind = "raised")
            /\ result.kind = "completed" => exit_status = 0

\* C3 witnesses: a run ended with status 1 by the timeout, not by usage
C3_Witness ==
  /\ Exited /\ exit_status = 1 /\ ~UsageError /\ ~UnknownCommand
  /\ result.kind = "raised"

\* C4: when the tool completes, dfx_call yields "ERROR: " + stripped stderr
\* on a non-zero exit code and stripped stdout on a zero one; the command
\* prints that in the result position, has invoked the tool exactly once,
\* raises nothing and the process exits with status 0.
C4_ToolFailureIsPrinted ==
  result.kind = "completed" =>
     /\ Exited /\ exc = "none" /\ exit_status = 0
     /\ Len(invocations) = 1
     /\ IF result.returncode # 0
        THEN /\ PrintedOutput # <<>>
             /\ PrintedOutput[1] = "ERROR: "
             /\ IsStripOf(Tail(PrintedOutput), result.stderr)
        ELSE IsStripOf(PrintedOutput, result.stdout)

C4_Witness ==
  /\ result.kind = "completed" /\ result.returncode # 0
  /\ result.stderr = <<"\n", "e">>
  /\ PrintedOutput = <<"ERROR: ", "e">>
  /\ exit_status = 0

\* n is within one unit plus a relative 2^-51 of amount * 10^k, on its side
\* of zero: what two roundings to 53 bits and a truncation allow
WithinRounding(n, amount, k) ==
  LET d     == DecimalOf(amount)
      exact == BMul(d.whole, Pow10(k))
      got   == BMul(n.mag, Pow10(d.frac))
      diff  == IF BGe(got, exact) THEN BSub(got, exact) ELSE BSub(exact, got)
  IN  /\ n.neg => d.neg
      /\ BLt(BMul(diff, Pow2(51)), BAdd(BMul(Pow10(d.frac), Pow2(51)), exact))

\* C5 as amended: the integer in the call arguments is the double-precision
\* product of float(amount) and the chain's factor, truncated toward zero.
\* It lies within one unit plus a relative 2^-51 of the exact product and
\* equals it for 0.01 sol (10000000) and 1.5 icp (150000000), but not for
\* every amount.
C5_FloatSmallestUnit ==
  (pc = "running" /\ SendRun /\ InSet(argv[3], SendChains) /\ Convertible(argv[4])) =>
     LET w == Canonical(argv[3], SendChains)
     IN  /\ invocations # <<>>
         /\ units.kind = "int"
         /\ invocations[1][8] = SendArgsOf(w, argv[5], str(units))
         /\ WithinRounding(units, argv[4], UnitExponent(w))
         /\ (w = w_sol /\ argv[4] = <<"0", ".", "0", "1">>) =>
               str(units) = <<"1", "0", "0", "0", "0", "0", "0", "0">>
         /\ (w = w_icp /\ argv[4] = <<"1", ".", "5">>) =>
               str(units) = <<"1", "5", "0", "0", "0", "0", "0", "0", "0">>

\* a send whose converted amount is one unit short of the exact product
C5_Witness ==
  /\ pc = "running" /\ SendRun /\ FoldsTo(argv[3], w_icp)
  /\ argv[4] = <<"0", ".", "2", "9">>
  /\ str(units) = <<"2", "8", "9", "9", "9", "9", "9", "9">>

\* C5 as stated: for every convertible amount and supported send chain the
\* integer in the call arguments is the amount times the chain's unit
\* factor, truncated (0.01 sol -> 10000000, 1.5 icp -> 150000000).
C5_ExactSmallestUnit ==
  (Dispatched /\ SendRun /\ InSet(argv[3], SendChains) /\ Convertible(argv[4])) =>
     LET w == Canonical(argv[3], SendChains)
     IN  /\ invocations # <<>>
         /\ invocations[1][8] =
              SendArgsOf(w, argv[5], ExactUnitsTable[argv[4], UnitExponent(w)])

\* C6: a send on a supported chain with a convertible amount invokes the
\* tool in call mode (no --query) with the chain's method and argument
\* shape, n being the converted integer and addr the destination.
C6_SendInvocationShape ==
  (Dispatched /\ SendRun /\ InSet(argv[3], SendChains) /\ Convertible(argv[4])) =>
     LET w == Canonical(argv[3], SendChains)
     IN  /\ invocations # <<>>
         /\ units.kind = "int"
         /\ IsCall(invocations[1], FALSE, SendMethodOf(w),
                   SendArgsOf(w, argv[5], str(units)))

C6_Witness ==
  /\ SendRun /\ FoldsTo(argv[3], w_icp) /\ argv[4] = <<"1", ".", "5">>
  /\ invocations # <<>>
  /\ invocations[1][7] = <<"sendICP">>
  /\ invocations[1][8] = <<"(principal \"">> \o argv[5] \o <<"\", ">>
                           \o <<"1", "5", "0", "0", "0", "0", "0", "0", "0">> \o <<")">>

\* C7: the tool is invoked at most once per run, and a run that is a usage
\* error or names an unknown command prints the usage text or usage line and
\* exits with status 1 without invoking the tool.
C7_AtMostOneInvocation ==
  /\ Len(invocations) <= 1
  /\ (UsageError \/ UnknownCommand) => invocations = <<>>
  /\ (Exited /\ (UsageError \/ UnknownCommand)) =>
        /\ exit_status = 1
        /\ out # <<>>
        /\ \/ out[Len(out)] = usage_text
           \/ /\ BalanceWithoutChain
              /\ out = << <<"Usage: wallet_commands.py balance <chain>">> >>
           \/ /\ SendWithoutOperands
              /\ out = << <<"Usage: wallet_commands.py send <chain> <amount> <address>">> >>

C7_Witness ==
  /\ Exited /\ SendWithoutOperands /\ Len(argv) = 4
  /\ exit_status = 1 /\ invocations = <<>>

\* C8: when the tool does not finish within the timeout, nothing catches
\* the TimeoutExpired: the process ends abnormally without printing the
\* error marker or a result or balance line, and without a second invocation.
C8_TimeoutIsUncaught ==
  (result.kind = "raised" /\ result.exception = "TimeoutExpired") =>
     /\ Exited /\ exc = "TimeoutExpired" /\ exit_status # 0
     /\ Len(invocations) = 1
     /\ \A i \in 1..Len(out) :
          /\ ~HasFragment(out[i], "ERROR: ")
          /\ ~HasFragment(out[i], "\nResult: ")
          /\ ~HasFragment(out[i], " balance: ")
          /\ out[i] \notin {<<"Your multi-chain wallet addresses:\n">>,
                            <<"Billing account status:\n">>}

C8_Witness ==
  /\ result.kind = "raised" /\ result.exception = "TimeoutExpired"
  /\ SendRun /\ Len(out) = 1 /\ out[1][1] = "Sending "

\* C9: chain lookup ignores letter case and accepts exactly the documented
\* sets: balance invokes the tool iff the lower-cased chain is one of the
\* seven balance chains (table method, ("ethereum") for eth/ethereum, ()
\* otherwise); send with a convertible amount invokes it iff the lower-cased
\* chain is one of the twelve send chains; the invocation depends on the
\* chain argument only through its lower-cased form.
C9_ChainLookup ==
  /\ (Dispatched /\ BalanceRun) =>
        /\ invocations # <<>> <=> InSet(argv[3], BalanceChains)
        /\ invocations # <<>> =>
             LET w == Canonical(argv[3], BalanceChains)
             IN  /\ invocations[1][7] = <<BalanceMethodOf(w)>>
                 /\ invocations[1][8] = (IF w \in {w_eth, w_ethereum}
                                         THEN <<"(\"ethereum\")">> ELSE <<"()">>)
  /\ (Dispatched /\ SendRun /\ Convertible(argv[4])) =>
        /\ invocations # <<>> <=> InSet(argv[3], SendChains)
        /\ invocations # <<>> =>
             LET w == Canonical(argv[3], SendChains)
             IN  /\ invocations[1][7] = <<SendMethodOf(w)>>
                 /\ invocations[1][8] = SendArgsOf(w, argv[5], str(units))

C9_Witness ==
  /\ BalanceRun /\ argv[3] = <<"E", "T", "H">>
  /\ invocations # <<>>
  /\ invocations[1][7] = <<"getMyEvmBalance">>
  /\ invocations[1][8] = <<"(\"ethereum\")">>

\* C10: send_tokens converts the amount after the chain has matched and
\* before it prints or invokes: on a supported chain an amount that does not
\* convert ends the run with nothing printed and nothing invoked; on an
\* unsupported chain the amount is never parsed, so the run only prints the
\* unsupported-chain message.
C10_ConvertBeforeSend ==
  (Dispatched /\ SendRun /\ ~Convertible(argv[4])) =>
     IF InSet(argv[3], SendChains)
     THEN /\ Exited /\ exc \in {"ValueError", "OverflowError"}
          /\ out = <<>>
          /\ invocations = <<>>
     ELSE /\ Exited /\ exc = "none" /\ exit_status = 0
          /\ invocations = <<>>
          /\ Len(out) = 2
          /\ out[1][1] = "Unsupported chain for send: "

C10_Witness ==
  /\ Exited /\ SendRun /\ FoldsTo(argv[3], w_sol) /\ argv[4] = <<"a", "b", "c">>
  /\ exc = "ValueError" /\ out = <<>> /\ invocations = <<>>

====
